---------------------------- MODULE Spec2Model ----------------------------
(***************************************************************************)
(* The PrivacyPollsFHE contract (src/unnamed/part_000) as a state machine. *)
(*                                                                         *)
(* Every public function is one atomic action (a transaction).  A revert   *)
(* rolls the whole transaction back, so a reverting call leaves every      *)
(* contract variable as it was; only the observation variable `last`       *)
(* records that the call was made and why it failed.                       *)
(*                                                                         *)
(* The FHE library is an imported capability.  A ciphertext handle is a    *)
(* record [init, plain, salt]: `plain` is the value the key-management     *)
(* service would decrypt it to (never read by the contract), `salt` the    *)
(* encryption randomness (0 for handles the library computes itself,       *)
(* which are deterministic).  The contract sees only toBytes32 of it.      *)
(***************************************************************************)
EXTENDS Integers, Sequences, FiniteSets, TLC

\* ------------------------------------------------------------ bounds
MaxVotes == 2        \* submitEncryptedVote calls
MaxAggregates == 2   \* aggregateVotes calls
MaxRequests == 2     \* successful requestChoiceDecryption calls
MaxCallbacks == 2    \* successful decryptChoiceCount calls
MaxVoter == 1        \* voter ids 1..MaxVoter
MaxTime == 1         \* block.timestamp ranges over 0..MaxTime
MaxOption == 0       \* plaintext ballot choices 0..MaxOption
MaxClients == 2      \* browser sessions running the frontend
MaxPolls == 2        \* createPoll calls that generate a poll id
MaxBallots == 2      \* submitVote calls that store a vote
MaxOptions == 2      \* options of a poll: MinOptions..MaxOptions

\* ------------------------------------------------------------ program constants
Bytes32Len == 32     \* bytes32ToString: new bytes(32)
HashMod == 1000003   \* range of the modelled keccak256
MinOptions == 2      \* removeOption: a poll keeps at least two options

VARIABLES
    voteCount,             \* uint256 public voteCount
    encryptedVotes,        \* mapping(uint256 => EncryptedVote), entries 1..voteCount
    encryptedChoiceCount,  \* mapping(string => euint32)
    choiceList,            \* string[] private choiceList
    decryptionRequests,    \* mapping(uint256 => uint256)
    events,                \* the contract's event log
    counterRequest,        \* FHE library: next decryption request id
    requestedHandles,      \* FHE library: request id -> handle sent to the oracle
    now,                   \* block.timestamp of the latest block
    sender,                \* msg.sender of the latest call
    aggregateCalls,        \* observation: number of aggregateVotes calls so far
    cursor,                \* observation: voteCount when aggregateVotes last ran
    issued,                \* observation: successful requests, in order
    fulfilled,             \* observation: request ids whose callback has succeeded
    last                   \* observation: the latest call and its outcome

\* The frontend (App.tsx): the key-value data its contract calls read and
\* write, and the running createPoll and submitVote calls of each client.
VARIABLES
    chainData,             \* getData / setData: key -> bytes
    pc,                    \* per client: the await its running call stands at
    local,                 \* per client: the running call's local variables
    nextPollId,            \* the poll ids generated so far are 1..nextPollId
    createdPolls,          \* observation: ids whose createPoll call succeeded
    ballots                \* observation: the submitVote calls that succeeded

contractVars == <<voteCount, encryptedVotes, encryptedChoiceCount, choiceList,
                  decryptionRequests, events, counterRequest, requestedHandles>>

ledgerVars == <<voteCount, encryptedVotes, encryptedChoiceCount, choiceList,
                decryptionRequests, events, counterRequest, requestedHandles, now,
                sender, aggregateCalls, cursor, issued, fulfilled, last>>

frontendVars == <<chainData, pc, local, nextPollId, createdPolls, ballots>>

vars == <<ledgerVars, frontendVars>>

\* ------------------------------------------------------------ the FHE capability

\* The encryption randomness of a submitted ciphertext: two encryptions of
\* one ballot choice differ in it.
Salts == {1, 2}

\* Number of distinct salt values, 0 (computed handles) included.
SaltRange == Cardinality(Salts) + 1

\* The zero handle: the default value of a euint32 storage slot.
Uninitialized == [init |-> FALSE, plain |-> 0, salt |-> 0]

\* FHE.isInitialized
isInitialized(h) == h.init

\* FHE.asEuint32: trivial encryption, deterministic.
asEuint32(v) == [init |-> TRUE, plain |-> v, salt |-> 0]

\* FHE.add: a new handle; an uninitialized operand counts as zero.  The
\* handles are immutable: add never changes the value behind an operand.
\* (The bounds keep every sum far below 2^32.)
add(a, b) == [init |-> TRUE, plain |-> a.plain + b.plain, salt |-> 0]

\* FHE.toBytes32: the handle's 32 bytes, as the number they spell
\* (big-endian).  Distinct handles have distinct bytes; the zero handle is 0.
toBytes32(h) == IF h.init THEN 1 + h.salt + SaltRange * h.plain ELSE 0

\* What the key-management service decrypts the handle with these bytes to.
KmsDecrypt(b) == IF b = 0 THEN 0 ELSE (b - 1) \div SaltRange

\* Decryption of a handle held by the contract.
Decrypt(h) == KmsDecrypt(toBytes32(h))

\* A decryption proof: the service's signature over (handles, cleartexts).
\* The service signs only true decryptions of handles sent to it.
KmsSign(b) == [signed |-> TRUE, handles |-> b, cleartexts |-> KmsDecrypt(b)]

\* Bytes that are no signature of the service.
Forged == [signed |-> FALSE, handles |-> 0, cleartexts |-> 0]

\* No handle was stored for a request id.
NoHandles == -1

\* FHE.checkSignatures(requestId, cleartexts, proof): TRUE when it returns,
\* FALSE when it reverts.
checkSignatures(requestId, cleartexts, proof) ==
    /\ requestedHandles[requestId] # NoHandles
    /\ proof.signed
    /\ proof.handles = requestedHandles[requestId]
    /\ proof.cleartexts = cleartexts

\* ------------------------------------------------------------ helpers

\* A string is held as [len, val]: its length in bytes and the number its
\* bytes spell (big-endian).  Two strings are equal exactly when both agree.
String(len, val) == [len |-> len, val |-> val]

\* bytes32ToString: the string of the 32 bytes of b.
bytes32ToString(b) == String(Bytes32Len, b)

\* keccak256(abi.encodePacked(s)): a digest of the string's bytes, never zero
\* and free of collisions on the strings of the model (KeccakInjective).
keccak256(s) == 1 + ((s.val * 31 + s.len) % HashMod)

\* bytes32ToUint: uint256(b); a bytes32 is already held as the number it spells.
bytes32ToUint(b) == b

\* bytes32ToString(FHE.toBytes32(encryptedChoice)): the choice string a vote
\* is counted under.
choiceStrOf(encryptedChoice) == bytes32ToString(toBytes32(encryptedChoice))

\* ------------------------------------------------------------ inputs
Voters == 1..MaxVoter

\* The accounts that send transactions: the decryption oracle configured by
\* SepoliaConfig, and anybody else.  No function reads msg.sender.
Oracle == "oracle"
User == "user"
Callers == {Oracle, User}

\* Ciphertexts a voter can submit: an encryption of a ballot choice.
VoteHandles ==
    {[init |-> TRUE, plain |-> o, salt |-> r] : o \in 0..MaxOption, r \in Salts}

\* A choice string that no ciphertext spells ("A").
OtherChoice == String(1, 65)

\* The strings used as mapping keys.
ChoiceStrings == {choiceStrOf(h) : h \in VoteHandles} \cup {OtherChoice}

\* choiceStrOf and the digest of a choice string, tabulated once.
ChoiceStrTable == [h \in VoteHandles |-> choiceStrOf(h)]
DigestTable == [s \in ChoiceStrings |-> bytes32ToUint(keccak256(s))]

\* bytes32ToUint(keccak256(abi.encodePacked(choice)))
choiceDigest(choice) == DigestTable[choice]

RequestIds == 0..MaxRequests

KeccakInjective ==
    \A s, t \in ChoiceStrings : choiceDigest(s) = choiceDigest(t) => s = t

\* ------------------------------------------------------------ events
\* The empty string.
NoChoice == String(0, 0)

VoteSubmitted(voterId, timestamp) ==
    [name |-> "VoteSubmitted", voterId |-> voterId, timestamp |-> timestamp,
     requestId |-> -1, choice |-> NoChoice, count |-> 0]

DecryptionRequested(requestId) ==
    [name |-> "DecryptionRequested", voterId |-> 0, timestamp |-> 0,
     requestId |-> requestId, choice |-> NoChoice, count |-> 0]

VoteCountDecrypted(choice, count) ==
    [name |-> "VoteCountDecrypted", voterId |-> 0, timestamp |-> 0,
     requestId |-> -1, choice |-> choice, count |-> count]

EventsNamed(n) == {i \in 1..Len(events) : events[i].name = n}

\* Whether `proof` is the service's signature of `cleartexts` as the
\* decryption of the handle sent to it under `requestId`.
ProofValidates(requestId, cleartexts, proof) ==
    /\ proof.signed
    /\ proof.handles = requestedHandles[requestId]
    /\ proof.cleartexts = cleartexts

\* The outcome of a call: the function, how it ended (Ok or the revert
\* reason), the request id it returned or was given, the choice it was given
\* or published, the number of loop iterations of an aggregation, and
\* whether the proof given to a callback validates.
Call(op, err, requestId, choice, folded, proofOk) ==
    [op |-> op, err |-> err, requestId |-> requestId, choice |-> choice,
     folded |-> folded, proofOk |-> proofOk]

Ok == "ok"

\* ------------------------------------------------------------ the frontend's data
Clients == 1..MaxClients
PollIds == 1..MaxPolls

\* The keys the frontend uses: "poll_keys" and `poll_${pollId}`.
PollKeysKey == [name |-> "poll_keys", id |-> 0]
PollKey(pollId) == [name |-> "poll_", id |-> pollId]
DataKeys == {PollKeysKey} \cup {PollKey(id) : id \in PollIds}

\* JSON.stringify / JSON.parse, btoa / atob, ethers.toUtf8Bytes /
\* ethers.toUtf8String: each encoding wraps its argument, each decoding
\* unwraps a value of that encoding.
JSON_stringify(v) == [json |-> v]
JSON_parse(t) == t.json
btoa(t) == [b64 |-> t]
atob(t) == t.b64
toUtf8Bytes(t) == [length |-> 1, utf8 |-> t]
toUtf8String(b) == b.utf8

\* What getData returns for a key that was never set: bytes of length 0.
EmptyBytes == [length |-> 0, utf8 |-> JSON_stringify(<<>>)]

\* newPollData.options.map(() => 0)
ZeroResults(numOptions) == [i \in 1..numOptions |-> 0]

\* createPoll's pollData, as far as submitVote reads it.
NewPollData(numOptions) ==
    [options |-> numOptions,
     encryptedResults |-> btoa(JSON_stringify(ZeroResults(numOptions))),
     totalVotes |-> 0]

\* The local variables of a call that is not running.
NoLocal ==
    [pollId |-> 0, optionIndex |-> 0, keys |-> <<>>, pollData |-> NewPollData(0)]

\* ------------------------------------------------------------ initial state
Init ==
    /\ chainData = [k \in DataKeys |-> EmptyBytes]
    /\ pc = [c \in Clients |-> "idle"]
    /\ local = [c \in Clients |-> NoLocal]
    /\ nextPollId = 0
    /\ createdPolls = {}
    /\ ballots = <<>>
    /\ voteCount = 0
    /\ encryptedVotes = <<>>
    /\ encryptedChoiceCount = [s \in ChoiceStrings |-> Uninitialized]
    /\ choiceList = <<>>
    /\ decryptionRequests = [r \in RequestIds |-> 0]
    /\ events = <<>>
    /\ counterRequest = 0
    /\ requestedHandles = [r \in RequestIds |-> NoHandles]
    /\ now = 0
    /\ sender = User
    /\ aggregateCalls = 0
    /\ cursor = 0
    /\ issued = <<>>
    /\ fulfilled = {}
    /\ last = Call("deploy", Ok, -1, NoChoice, 0, FALSE)

\* ------------------------------------------------------------ submitEncryptedVote
\* Appends the vote; on the first vote with these ciphertext bytes, registers
\* the bytes as a choice with an encrypted zero count.
\* Mutant: the FHE.isInitialized test on line 52 is missing.
submitEncryptedVote_AlwaysRegisters(voterId, encryptedChoice, timestamp) ==
    LET choiceStr == ChoiceStrTable[encryptedChoice] IN
    /\ voteCount < MaxVotes
    /\ voteCount' = voteCount + 1
    /\ encryptedVotes' = Append(encryptedVotes,
            [voterId |-> voterId, encryptedChoice |-> encryptedChoice,
             timestamp |-> timestamp])
    /\ encryptedChoiceCount' =
            [encryptedChoiceCount EXCEPT ![choiceStr] = asEuint32(0)]
    /\ choiceList' = Append(choiceList, choiceStr)
    /\ events' = Append(events, VoteSubmitted(voterId, timestamp))
    /\ now' = timestamp
    /\ last' = Call("submit", Ok, -1, choiceStr, 0, FALSE)
    /\ UNCHANGED <<decryptionRequests, counterRequest, requestedHandles,
                   aggregateCalls, issued, fulfilled>>

\* Mutant: the event carries the vote's id in place of the voter's id.
submitEncryptedVote_EmitsVoteId(voterId, encryptedChoice, timestamp) ==
    LET choiceStr == ChoiceStrTable[encryptedChoice] IN
    /\ voteCount < MaxVotes
    /\ voteCount' = voteCount + 1
    /\ encryptedVotes' = Append(encryptedVotes,
            [voterId |-> voterId, encryptedChoice |-> encryptedChoice,
             timestamp |-> timestamp])
    /\ IF ~isInitialized(encryptedChoiceCount[choiceStr])
       THEN /\ encryptedChoiceCount' =
                    [encryptedChoiceCount EXCEPT ![choiceStr] = asEuint32(0)]
            /\ choiceList' = Append(choiceList, choiceStr)
       ELSE UNCHANGED <<encryptedChoiceCount, choiceList>>
    /\ events' = Append(events, VoteSubmitted(voteCount + 1, timestamp))
    /\ now' = timestamp
    /\ last' = Call("submit", Ok, -1, choiceStr, 0, FALSE)
    /\ UNCHANGED <<decryptionRequests, counterRequest, requestedHandles,
                   aggregateCalls, issued, fulfilled>>

submitEncryptedVote(voterId, encryptedChoice, timestamp) ==
    LET choiceStr == ChoiceStrTable[encryptedChoice] IN
    /\ voteCount < MaxVotes
    /\ voteCount' = voteCount + 1
    /\ encryptedVotes' = Append(encryptedVotes,
            [voterId |-> voterId, encryptedChoice |-> encryptedChoice,
             timestamp |-> timestamp])
    /\ IF ~isInitialized(encryptedChoiceCount[choiceStr])
       THEN /\ encryptedChoiceCount' =
                    [encryptedChoiceCount EXCEPT ![choiceStr] = asEuint32(0)]
            /\ choiceList' = Append(choiceList, choiceStr)
       ELSE UNCHANGED <<encryptedChoiceCount, choiceList>>
    /\ events' = Append(events, VoteSubmitted(voterId, timestamp))
    /\ now' = timestamp
    /\ last' = Call("submit", Ok, -1, choiceStr, 0, FALSE)
    /\ UNCHANGED <<decryptionRequests, counterRequest, requestedHandles,
                   aggregateCalls, issued, fulfilled>>

\* ------------------------------------------------------------ aggregateVotes
\* The loop body for index i (0-based): one is added to the count of vote i+1.
AggregateStep(counts, i) ==
    LET choiceStr == ChoiceStrTable[encryptedVotes[i + 1].encryptedChoice] IN
    [counts EXCEPT ![choiceStr] = add(counts[choiceStr], asEuint32(1))]

\* The counts after the loop has run for i = 0 .. n-1.
RECURSIVE AggregateLoop(_, _)
AggregateLoop(counts, n) ==
    IF n = 0 THEN counts ELSE AggregateStep(AggregateLoop(counts, n - 1), n - 1)

\* Mutant: the folded votes are deleted and the vote counter is reset.
aggregateVotes_ResetsLedger ==
    /\ aggregateCalls < MaxAggregates
    /\ encryptedChoiceCount' = AggregateLoop(encryptedChoiceCount, voteCount)
    /\ aggregateCalls' = aggregateCalls + 1
    /\ voteCount' = 0
    /\ encryptedVotes' = <<>>
    /\ last' = Call("aggregate", Ok, -1, NoChoice, voteCount, FALSE)
    /\ UNCHANGED <<choiceList, decryptionRequests, events, counterRequest,
                   requestedHandles, now, issued, fulfilled>>

\* Mutant: an aggregation expires the requests that are still unanswered.
aggregateVotes_ExpiresRequests ==
    /\ aggregateCalls < MaxAggregates
    /\ encryptedChoiceCount' = AggregateLoop(encryptedChoiceCount, voteCount)
    /\ aggregateCalls' = aggregateCalls + 1
    /\ decryptionRequests' = [r \in RequestIds |-> 0]
    /\ last' = Call("aggregate", Ok, -1, NoChoice, voteCount, FALSE)
    /\ UNCHANGED <<voteCount, encryptedVotes, choiceList, events,
                   counterRequest, requestedHandles, now, issued, fulfilled>>

\* Mutant: the list of choices is emptied once the votes are folded.
aggregateVotes_ClearsChoiceList ==
    /\ aggregateCalls < MaxAggregates
    /\ encryptedChoiceCount' = AggregateLoop(encryptedChoiceCount, voteCount)
    /\ aggregateCalls' = aggregateCalls + 1
    /\ choiceList' = <<>>
    /\ last' = Call("aggregate", Ok, -1, NoChoice, voteCount, FALSE)
    /\ UNCHANGED <<voteCount, encryptedVotes, decryptionRequests, events,
                   counterRequest, requestedHandles, now, issued, fulfilled>>

\* for (uint i = 0; i < voteCount; i++): every stored vote, on every call.
aggregateVotes ==
    /\ aggregateCalls < MaxAggregates
    /\ encryptedChoiceCount' = AggregateLoop(encryptedChoiceCount, voteCount)
    /\ aggregateCalls' = aggregateCalls + 1
    /\ last' = Call("aggregate", Ok, -1, NoChoice, voteCount, FALSE)
    /\ UNCHANGED <<voteCount, encryptedVotes, choiceList, decryptionRequests,
                   events, counterRequest, requestedHandles, now, issued,
                   fulfilled>>

\* ------------------------------------------------------------ requestChoiceDecryption
\* A call that reverts: the transaction is rolled back.
Revert(op, reason, requestId, choice, proofOk) ==
    /\ last' = Call(op, reason, requestId, choice, 0, proofOk)
    /\ UNCHANGED <<voteCount, encryptedVotes, encryptedChoiceCount, choiceList,
                   decryptionRequests, events, counterRequest, requestedHandles,
                   now, aggregateCalls, issued, fulfilled>>

\* Mutant: the require on line 76 is missing.
requestChoiceDecryption_NoRequire(choice) ==
    LET count == encryptedChoiceCount[choice]
        reqId == counterRequest
    IN
    /\ counterRequest < MaxRequests
    /\ counterRequest' = counterRequest + 1
    /\ requestedHandles' = [requestedHandles EXCEPT ![reqId] = toBytes32(count)]
    /\ decryptionRequests' =
            [decryptionRequests EXCEPT ![reqId] = choiceDigest(choice)]
    /\ events' = Append(events, DecryptionRequested(reqId))
    /\ issued' = Append(issued,
            [requestId |-> reqId, choice |-> choice, count |-> Decrypt(count)])
    /\ last' = Call("request", Ok, reqId, choice, 0, FALSE)
    /\ UNCHANGED <<voteCount, encryptedVotes, encryptedChoiceCount, choiceList,
                   now, aggregateCalls, fulfilled>>

\* Mutant: the commitment is stored under a fixed slot, not under reqId.
requestChoiceDecryption_FixedSlot(choice) ==
    LET count == encryptedChoiceCount[choice]
        reqId == counterRequest
    IN
    IF ~isInitialized(count)
    THEN Revert("request", "Choice not found", -1, choice, FALSE)
    ELSE /\ counterRequest < MaxRequests
         /\ counterRequest' = counterRequest + 1
         /\ requestedHandles' = [requestedHandles EXCEPT ![reqId] = toBytes32(count)]
         /\ decryptionRequests' =
                [decryptionRequests EXCEPT ![0] = choiceDigest(choice)]
         /\ events' = Append(events, DecryptionRequested(reqId))
         /\ issued' = Append(issued,
                [requestId |-> reqId, choice |-> choice, count |-> Decrypt(count)])
         /\ last' = Call("request", Ok, reqId, choice, 0, FALSE)
         /\ UNCHANGED <<voteCount, encryptedVotes, encryptedChoiceCount, choiceList,
                        now, aggregateCalls, fulfilled>>

\* Mutant: the commitment is taken from the count's handle, not from the
\* digest of the choice.
requestChoiceDecryption_CommitsHandle(choice) ==
    LET count == encryptedChoiceCount[choice]
        reqId == counterRequest
    IN
    IF ~isInitialized(count)
    THEN Revert("request", "Choice not found", -1, choice, FALSE)
    ELSE /\ counterRequest < MaxRequests
         /\ counterRequest' = counterRequest + 1
         /\ requestedHandles' = [requestedHandles EXCEPT ![reqId] = toBytes32(count)]
         /\ decryptionRequests' =
                [decryptionRequests EXCEPT ![reqId] = bytes32ToUint(toBytes32(count))]
         /\ events' = Append(events, DecryptionRequested(reqId))
         /\ issued' = Append(issued,
                [requestId |-> reqId, choice |-> choice, count |-> Decrypt(count)])
         /\ last' = Call("request", Ok, reqId, choice, 0, FALSE)
         /\ UNCHANGED <<voteCount, encryptedVotes, encryptedChoiceCount, choiceList,
                        now, aggregateCalls, fulfilled>>

requestChoiceDecryption(choice) ==
    LET count == encryptedChoiceCount[choice]
        reqId == counterRequest
    IN
    IF ~isInitialized(count)
    THEN Revert("request", "Choice not found", -1, choice, FALSE)
    ELSE /\ counterRequest < MaxRequests
         /\ counterRequest' = counterRequest + 1
         /\ requestedHandles' = [requestedHandles EXCEPT ![reqId] = toBytes32(count)]
         /\ decryptionRequests' =
                [decryptionRequests EXCEPT ![reqId] = choiceDigest(choice)]
         /\ events' = Append(events, DecryptionRequested(reqId))
         /\ issued' = Append(issued,
                [requestId |-> reqId, choice |-> choice, count |-> Decrypt(count)])
         /\ last' = Call("request", Ok, reqId, choice, 0, FALSE)
         /\ UNCHANGED <<voteCount, encryptedVotes, encryptedChoiceCount, choiceList,
                        now, aggregateCalls, fulfilled>>

\* ------------------------------------------------------------ decryptChoiceCount
\* getChoiceFromHash: the indices of choiceList whose digest is `hash`.
MatchingChoices(hash) ==
    {i \in 1..Len(choiceList) : choiceDigest(choiceList[i]) = hash}

\* Mutant: the revert on line 129 is missing.
ChoiceFound_NoRevert(hash) == TRUE

\* getChoiceFromHash found a choice (otherwise it reverts "Choice not found").
ChoiceFound(hash) == MatchingChoices(hash) # {}

\* Mutant: the comparison on line 125 always succeeds.
getChoiceFromHash_First(hash) == choiceList[1]

\* getChoiceFromHash: the first choice of the list with this digest.
getChoiceFromHash(hash) ==
    LET first == CHOOSE i \in MatchingChoices(hash) :
                    \A j \in MatchingChoices(hash) : i <= j
    IN choiceList[first]

\* abi.decode(cleartexts, (uint32)): the word itself, a uint32 in the model.
DecodeUint32(cleartexts) == cleartexts

\* Mutant: the FHE.checkSignatures call on line 96 is missing.
decryptChoiceCount_NoProofCheck(requestId, cleartexts, proof) ==
    LET choiceHash == decryptionRequests[requestId] IN
    IF ~ChoiceFound(choiceHash)
    THEN Revert("callback", "Choice not found", requestId, NoChoice,
                ProofValidates(requestId, cleartexts, proof))
    ELSE /\ Cardinality(EventsNamed("VoteCountDecrypted")) < MaxCallbacks
         /\ events' = Append(events,
                VoteCountDecrypted(getChoiceFromHash(choiceHash),
                                   DecodeUint32(cleartexts)))
         /\ fulfilled' = fulfilled \cup {requestId}
         /\ last' = Call("callback", Ok, requestId, getChoiceFromHash(choiceHash), 0,
                         ProofValidates(requestId, cleartexts, proof))
         /\ UNCHANGED <<voteCount, encryptedVotes, encryptedChoiceCount, choiceList,
                        decryptionRequests, counterRequest, requestedHandles, now,
                        aggregateCalls, issued>>

\* Mutant: the event is emitted before the proof is verified, and a bad
\* proof ends the call with an error status instead of a revert.
decryptChoiceCount_EmitsFirst(requestId, cleartexts, proof) ==
    LET choiceHash == decryptionRequests[requestId] IN
    IF ~ChoiceFound(choiceHash)
    THEN Revert("callback", "Choice not found", requestId, NoChoice,
                ProofValidates(requestId, cleartexts, proof))
    ELSE /\ Cardinality(EventsNamed("VoteCountDecrypted")) < MaxCallbacks
         /\ events' = Append(events,
                VoteCountDecrypted(getChoiceFromHash(choiceHash),
                                   DecodeUint32(cleartexts)))
         /\ IF checkSignatures(requestId, cleartexts, proof)
            THEN /\ fulfilled' = fulfilled \cup {requestId}
                 /\ last' = Call("callback", Ok, requestId,
                                 getChoiceFromHash(choiceHash), 0, TRUE)
            ELSE /\ fulfilled' = fulfilled
                 /\ last' = Call("callback", "InvalidProof", requestId, NoChoice, 0,
                                 ProofValidates(requestId, cleartexts, proof))
         /\ UNCHANGED <<voteCount, encryptedVotes, encryptedChoiceCount, choiceList,
                        decryptionRequests, counterRequest, requestedHandles, now,
                        aggregateCalls, issued>>

\* Mutant: the published count is cleared after publication.
decryptChoiceCount_ResetsTally(requestId, cleartexts, proof) ==
    LET choiceHash == decryptionRequests[requestId] IN
    IF ~ChoiceFound(choiceHash)
    THEN Revert("callback", "Choice not found", requestId, NoChoice,
                ProofValidates(requestId, cleartexts, proof))
    ELSE IF ~checkSignatures(requestId, cleartexts, proof)
    THEN Revert("callback", "InvalidProof", requestId, NoChoice,
                ProofValidates(requestId, cleartexts, proof))
    ELSE /\ Cardinality(EventsNamed("VoteCountDecrypted")) < MaxCallbacks
         /\ events' = Append(events,
                VoteCountDecrypted(getChoiceFromHash(choiceHash),
                                   DecodeUint32(cleartexts)))
         /\ encryptedChoiceCount' =
                [encryptedChoiceCount EXCEPT
                    ![getChoiceFromHash(choiceHash)] = asEuint32(0)]
         /\ fulfilled' = fulfilled \cup {requestId}
         /\ last' = Call("callback", Ok, requestId, getChoiceFromHash(choiceHash), 0,
                         ProofValidates(requestId, cleartexts, proof))
         /\ UNCHANGED <<voteCount, encryptedVotes, choiceList,
                        decryptionRequests, counterRequest, requestedHandles, now,
                        aggregateCalls, issued>>

\* Mutant: the commitment is read from the latest request, not from
\* decryptionRequests[requestId].
decryptChoiceCount_LatestRequest(requestId, cleartexts, proof) ==
    LET choiceHash == IF counterRequest = 0 THEN 0
                      ELSE decryptionRequests[counterRequest - 1] IN
    IF ~ChoiceFound(choiceHash)
    THEN Revert("callback", "Choice not found", requestId, NoChoice,
                ProofValidates(requestId, cleartexts, proof))
    ELSE IF ~checkSignatures(requestId, cleartexts, proof)
    THEN Revert("callback", "InvalidProof", requestId, NoChoice,
                ProofValidates(requestId, cleartexts, proof))
    ELSE /\ Cardinality(EventsNamed("VoteCountDecrypted")) < MaxCallbacks
         /\ events' = Append(events,
                VoteCountDecrypted(getChoiceFromHash(choiceHash),
                                   DecodeUint32(cleartexts)))
         /\ fulfilled' = fulfilled \cup {requestId}
         /\ last' = Call("callback", Ok, requestId, getChoiceFromHash(choiceHash), 0,
                         ProofValidates(requestId, cleartexts, proof))
         /\ UNCHANGED <<voteCount, encryptedVotes, encryptedChoiceCount, choiceList,
                        decryptionRequests, counterRequest, requestedHandles, now,
                        aggregateCalls, issued>>

decryptChoiceCount(requestId, cleartexts, proof) ==
    LET choiceHash == decryptionRequests[requestId] IN
    IF ~ChoiceFound(choiceHash)
    THEN Revert("callback", "Choice not found", requestId, NoChoice,
                ProofValidates(requestId, cleartexts, proof))
    ELSE IF ~checkSignatures(requestId, cleartexts, proof)
    THEN Revert("callback", "InvalidProof", requestId, NoChoice,
                ProofValidates(requestId, cleartexts, proof))
    ELSE /\ Cardinality(EventsNamed("VoteCountDecrypted")) < MaxCallbacks
         /\ events' = Append(events,
                VoteCountDecrypted(getChoiceFromHash(choiceHash),
                                   DecodeUint32(cleartexts)))
         /\ fulfilled' = fulfilled \cup {requestId}
         /\ last' = Call("callback", Ok, requestId, getChoiceFromHash(choiceHash), 0,
                         ProofValidates(requestId, cleartexts, proof))
         /\ UNCHANGED <<voteCount, encryptedVotes, encryptedChoiceCount, choiceList,
                        decryptionRequests, counterRequest, requestedHandles, now,
                        aggregateCalls, issued>>

\* ------------------------------------------------------------ the callers
\* Anything may be sent as a proof; the genuine ones are the service's
\* signatures for the handles it was asked to decrypt.
ProofInputs ==
    {Forged} \cup {KmsSign(requestedHandles[r]) : r \in 0..(counterRequest - 1)}

\* The cleartexts sent with them: the signed values, and tampered ones.
ClearInputs ==
    {p.cleartexts : p \in ProofInputs} \cup {p.cleartexts + 1 : p \in ProofInputs}

\* submitEncryptedVote, aggregateVotes and requestChoiceDecryption are sent
\* by users; decryptChoiceCount is public too and is sent by the oracle or
\* by anybody who holds a proof.
Submit ==
    \E voterId \in Voters, encryptedChoice \in VoteHandles, timestamp \in now..MaxTime :
        /\ submitEncryptedVote(voterId, encryptedChoice, timestamp)
        /\ sender' = User
        /\ UNCHANGED <<cursor, frontendVars>>

Aggregate ==
    /\ aggregateVotes
    /\ sender' = User
    /\ cursor' = voteCount
    /\ UNCHANGED frontendVars

Request ==
    \E choice \in ChoiceStrings :
        /\ requestChoiceDecryption(choice)
        /\ sender' = User
        /\ UNCHANGED <<cursor, frontendVars>>

Callback ==
    \E caller \in Callers, requestId \in RequestIds, cleartexts \in ClearInputs,
       proof \in ProofInputs :
        /\ decryptChoiceCount(requestId, cleartexts, proof)
        /\ sender' = caller
        /\ UNCHANGED <<cursor, frontendVars>>

Next == Submit \/ Aggregate \/ Request \/ Callback

Spec == Init /\ [][Next]_vars

\* ------------------------------------------------------------ the frontend's calls
\* contract.getData(key)
getData(key) == chainData[key]

\* contract.setData(key, value): the data after the transaction is mined.
setData(key, value) == [chainData EXCEPT ![key] = value]

\* A transaction the wallet is asked to sign is mined, or it is rejected
\* and the await throws into the call's catch block.
TxOutcomes == {"mined", "rejected"}

\* JSON.parse(ethers.toUtf8String(keysBytes)) if keysBytes.length > 0, else [].
ParseKeys(keysBytes) ==
    IF keysBytes.length > 0 THEN JSON_parse(toUtf8String(keysBytes)) ELSE <<>>

\* createPoll up to its first setData: the id is generated and the poll's
\* record is stored under poll_<id>.
createPoll_setPoll(c, numOptions, outcome) ==
    LET pollId == nextPollId + 1 IN
    /\ pc[c] = "idle"
    /\ nextPollId < MaxPolls
    /\ nextPollId' = pollId
    /\ IF outcome = "mined"
       THEN /\ chainData' = setData(PollKey(pollId),
                    toUtf8Bytes(JSON_stringify(NewPollData(numOptions))))
            /\ local' = [local EXCEPT ![c] = [NoLocal EXCEPT !.pollId = pollId]]
            /\ pc' = [pc EXCEPT ![c] = "createPoll_getKeys"]
       ELSE UNCHANGED <<chainData, local, pc>>
    /\ UNCHANGED <<createdPolls, ballots, ledgerVars>>

\* createPoll: keysBytes = await contract.getData("poll_keys").
createPoll_getKeys(c) ==
    /\ pc[c] = "createPoll_getKeys"
    /\ local' = [local EXCEPT ![c].keys = ParseKeys(getData(PollKeysKey))]
    /\ pc' = [pc EXCEPT ![c] = "createPoll_setKeys"]
    /\ UNCHANGED <<chainData, nextPollId, createdPolls, ballots, ledgerVars>>

\* createPoll: keys.push(pollId) and the second setData; the call has
\* succeeded when that transaction is mined.
createPoll_setKeys(c, outcome) ==
    LET keys == Append(local[c].keys, local[c].pollId) IN
    /\ pc[c] = "createPoll_setKeys"
    /\ IF outcome = "mined"
       THEN /\ chainData' = setData(PollKeysKey, toUtf8Bytes(JSON_stringify(keys)))
            /\ createdPolls' = createdPolls \cup {local[c].pollId}
       ELSE UNCHANGED <<chainData, createdPolls>>
    /\ local' = [local EXCEPT ![c] = NoLocal]
    /\ pc' = [pc EXCEPT ![c] = "idle"]
    /\ UNCHANGED <<nextPollId, ballots, ledgerVars>>

\* submitVote up to its getData: the poll's record is read; a poll that is
\* not stored ends the call with "Poll not found".
submitVote_getPoll(c, pollId, optionIndex) ==
    LET pollBytes == getData(PollKey(pollId)) IN
    /\ pc[c] = "idle"
    /\ IF pollBytes.length = 0
       THEN UNCHANGED <<local, pc>>
       ELSE /\ optionIndex < JSON_parse(toUtf8String(pollBytes)).options
            /\ local' = [local EXCEPT ![c] =
                    [pollId |-> pollId, optionIndex |-> optionIndex, keys |-> <<>>,
                     pollData |-> JSON_parse(toUtf8String(pollBytes))]]
            /\ pc' = [pc EXCEPT ![c] = "submitVote_setPoll"]
    /\ UNCHANGED <<chainData, nextPollId, createdPolls, ballots, ledgerVars>>

\* submitVote: currentResults[optionIndex] += 1, totalVotes + 1, and the
\* setData that stores the updated record.
submitVote_setPoll(c, outcome) ==
    LET pollData == local[c].pollData
        currentResults == JSON_parse(atob(pollData.encryptedResults))
        updatedResults == [currentResults EXCEPT ![local[c].optionIndex + 1] = @ + 1]
        updatedPoll == [pollData EXCEPT
                            !.encryptedResults = btoa(JSON_stringify(updatedResults)),
                            !.totalVotes = pollData.totalVotes + 1]
    IN
    /\ pc[c] = "submitVote_setPoll"
    /\ IF outcome = "mined"
       THEN /\ Len(ballots) < MaxBallots
            /\ chainData' = setData(PollKey(local[c].pollId),
                    toUtf8Bytes(JSON_stringify(updatedPoll)))
            /\ ballots' = Append(ballots,
                    [pollId |-> local[c].pollId, optionIndex |-> local[c].optionIndex])
       ELSE UNCHANGED <<chainData, ballots>>
    /\ local' = [local EXCEPT ![c] = NoLocal]
    /\ pc' = [pc EXCEPT ![c] = "idle"]
    /\ UNCHANGED <<nextPollId, createdPolls, ledgerVars>>

CreatePollStore ==
    \E c \in Clients, numOptions \in MinOptions..MaxOptions, outcome \in TxOutcomes :
        createPoll_setPoll(c, numOptions, outcome)

CreatePollReadKeys == \E c \in Clients : createPoll_getKeys(c)

CreatePollWriteKeys ==
    \E c \in Clients, outcome \in TxOutcomes : createPoll_setKeys(c, outcome)

SubmitVoteRead ==
    \E c \in Clients, pollId \in PollIds, optionIndex \in 0..(MaxOptions - 1) :
        submitVote_getPoll(c, pollId, optionIndex)

SubmitVoteWrite ==
    \E c \in Clients, outcome \in TxOutcomes : submitVote_setPoll(c, outcome)

FrontendNext ==
    \/ CreatePollStore
    \/ CreatePollReadKeys
    \/ CreatePollWriteKeys
    \/ SubmitVoteRead
    \/ SubmitVoteWrite

FrontendSpec == Init /\ [][FrontendNext]_vars

\* ------------------------------------------------------------ quantities the claims use

\* The number of submitted votes counted under choice string s.
VotesFor(s) ==
    Cardinality({i \in 1..voteCount : choiceStrOf(encryptedVotes[i].encryptedChoice) = s})

\* The decrypted count of choice string s.
Tally(s) == Decrypt(encryptedChoiceCount[s])

\* The sum of the decrypted counts of the first n entries of choiceList.
RECURSIVE TallySum(_)
TallySum(n) == IF n = 0 THEN 0 ELSE TallySum(n - 1) + Tally(choiceList[n])

\* The request ids returned so far.
IssuedIds == {issued[i].requestId : i \in 1..Len(issued)}

\* Every stored vote is counted under a registered choice string.
VotesRegistered ==
    \A i \in 1..voteCount :
        /\ isInitialized(encryptedChoiceCount[choiceStrOf(encryptedVotes[i].encryptedChoice)])
        /\ \E j \in 1..Len(choiceList) :
                choiceList[j] = choiceStrOf(encryptedVotes[i].encryptedChoice)

\* ------------------------------------------------------------ claims

\* C1: An aggregateVotes call that directly follows another aggregateVotes
\* call (no submit in between) folds zero votes and leaves the decrypted
\* count of every choice as the first call left it.
C1_SecondAggregateIsNoOp ==
    [][(last.op = "aggregate" /\ last'.op = "aggregate")
        => /\ last'.folded = 0
           /\ \A s \in ChoiceStrings :
                Decrypt(encryptedChoiceCount'[s]) = Decrypt(encryptedChoiceCount[s])]_vars

\* C2: Right after an aggregateVotes call, the count of every choice decrypts
\* to the number of votes submitted for it, and the decrypted counts of the
\* registered choices sum to the number of votes submitted.
C2_Conservation ==
    last.op = "aggregate"
        => /\ \A s \in ChoiceStrings : Tally(s) = VotesFor(s)
           /\ TallySum(Len(choiceList)) = voteCount

\* C3: In every reachable state no vote has been folded into a count more
\* than once: the decrypted count of a choice never exceeds the number of
\* votes submitted for it.
C3_NoVoteFoldedTwice ==
    \A s \in ChoiceStrings : Tally(s) <= VotesFor(s)

\* C4: Once a callback for a request id has succeeded, every later callback
\* with that request id fails and emits no VoteCountDecrypted event.
C4_FulfilledAtMostOnce ==
    [][(last'.op = "callback" /\ last'.requestId \in fulfilled)
        => /\ last'.err # Ok
           /\ events' = events]_vars

\* The callback for request id r with the true cleartext and the service's
\* proof passes every check of decryptChoiceCount.
CorrectCallbackPasses(r) ==
    /\ ChoiceFound(decryptionRequests[r])
    /\ checkSignatures(r, KmsDecrypt(requestedHandles[r]), KmsSign(requestedHandles[r]))

\* C5: A callback for an issued request whose proof does not validate fails
\* with InvalidProof and changes nothing: the pending-request table, the
\* event log and every other contract variable stay as they were, and in the
\* state it leaves the callback with the correct proof passes every check.
C5_InvalidProofHasNoEffect ==
    /\ [][(last'.op = "callback" /\ last'.requestId \in IssuedIds /\ ~last'.proofOk)
            => /\ last'.err = "InvalidProof"
               /\ UNCHANGED contractVars]_vars
    /\ [](last.err = "InvalidProof" => CorrectCallbackPasses(last.requestId))

\* C5 witness: a callback for an issued request has just failed on its proof.
C5_Witness ==
    /\ last.op = "callback"
    /\ last.err = "InvalidProof"
    /\ last.requestId \in IssuedIds

\* The entry of `issued` for request id r.
IssuedEntry(r) == issued[CHOOSE i \in 1..Len(issued) : issued[i].requestId = r]

\* C6: A correctly proved callback for an issued request id succeeds and
\* emits exactly one event, VoteCountDecrypted, with the choice given to the
\* request and the count that choice decrypted to when the request was made.
C6_RoundTripSnapshot ==
    [][(last'.op = "callback" /\ last'.requestId \in IssuedIds /\ last'.proofOk)
        => /\ last'.err = Ok
           /\ events' = Append(events,
                VoteCountDecrypted(IssuedEntry(last'.requestId).choice,
                                   IssuedEntry(last'.requestId).count))]_vars

\* C6 witness: a callback has just published a count for a choice whose
\* count has grown since the request, a vote having been submitted (and
\* votes aggregated) between the request and the callback.
C6_Witness ==
    /\ last.op = "callback"
    /\ last.err = Ok
    /\ events[Len(events)].name = "VoteCountDecrypted"
    /\ events[Len(events)].choice = IssuedEntry(last.requestId).choice
    /\ events[Len(events)].count < Tally(IssuedEntry(last.requestId).choice)
    /\ \E i, j \in 1..Len(events) :
            /\ i < j
            /\ events[i].name = "DecryptionRequested"
            /\ events[i].requestId = last.requestId
            /\ events[j].name = "VoteSubmitted"

\* C7: The request ids returned by successful requests are pairwise
\* distinct, and the commitment stored under each of them is still the
\* digest of the choice that request was made for.
C7_RequestIdsUnique ==
    /\ \A i, j \in 1..Len(issued) :
            issued[i].requestId = issued[j].requestId => i = j
    /\ \A i \in 1..Len(issued) :
            decryptionRequests[issued[i].requestId] = choiceDigest(issued[i].choice)

\* C7 witness: two requests for different choices have succeeded.
C7_Witness ==
    /\ Len(issued) = 2
    /\ issued[1].choice # issued[2].choice

\* C8: A request for a choice with no initialized count reverts with
\* "Choice not found": it returns no request id and leaves the pending-request
\* table, the handles sent to the oracle, the request counter and the event
\* log as they were.
C8_UnknownChoiceRejected ==
    [][(last'.op = "request" /\ ~isInitialized(encryptedChoiceCount[last'.choice]))
        => /\ last'.err = "Choice not found"
           /\ last'.requestId = -1
           /\ UNCHANGED contractVars]_vars

\* C8 witness: a request has just been rejected for an unregistered choice.
C8_Witness ==
    /\ last.op = "request"
    /\ last.err = "Choice not found"
    /\ ~isInitialized(encryptedChoiceCount[last.choice])

\* C9 as stated: a callback for a request id that no request returned fails
\* with UnknownRequest and emits no event.
C9_UnknownRequestError ==
    [][(last'.op = "callback" /\ last'.requestId \notin IssuedIds)
        => /\ last'.err = "UnknownRequest"
           /\ events' = events]_vars

\* C9 amended: a callback for a request id that no request returned reverts,
\* whatever cleartext and proof it carries, with the reason "Choice not
\* found" of the reverse lookup, and changes nothing.
C9_UnknownRequestReverts ==
    [][(last'.op = "callback" /\ last'.requestId \notin IssuedIds)
        => /\ last'.err = "Choice not found"
           /\ UNCHANGED contractVars]_vars

\* C9 witness: a callback for a never-returned request id has just failed,
\* while some other request is pending and its genuine proof is in circulation.
C9_Witness ==
    /\ last.op = "callback"
    /\ last.requestId \notin IssuedIds
    /\ last.err = "Choice not found"
    /\ IssuedIds # {}

\* C11: The vote ledger is append-only.  A submit stores exactly one new vote,
\* under the id that is the previous vote count plus one; no call changes or
\* removes a vote stored earlier, and no call other than submit changes the
\* ledger or the vote count at all.
C11_LedgerAppendOnly ==
    [][/\ \A i \in 1..Len(encryptedVotes) :
            /\ i <= Len(encryptedVotes')
            /\ encryptedVotes'[i] = encryptedVotes[i]
       /\ last'.op = "submit"
            => /\ voteCount' = voteCount + 1
               /\ Len(encryptedVotes') = Len(encryptedVotes) + 1
               /\ Len(encryptedVotes') = voteCount'
       /\ last'.op # "submit"
            => /\ encryptedVotes' = encryptedVotes
               /\ voteCount' = voteCount]_vars

\* C11 witness: two votes are stored and an aggregation, a request and a
\* callback have run since the first of them was stored.
C11_Witness ==
    /\ voteCount = 2
    /\ aggregateCalls > 0
    /\ fulfilled # {}

\* The choice strings in choiceList.
Registered == {choiceList[i] : i \in 1..Len(choiceList)}

\* C12: Registration is idempotent and monotonic.  In every state a choice
\* string is in choiceList at most once, and exactly the listed strings have
\* an initialized count.  In every step choiceList only grows at its end, the
\* count of a newly listed string decrypts to zero, and a submit for a
\* string already listed leaves the list and every count as they were.
C12_RegistrationMonotone ==
    /\ [](/\ \A i, j \in 1..Len(choiceList) : choiceList[i] = choiceList[j] => i = j
          /\ \A s \in ChoiceStrings :
                isInitialized(encryptedChoiceCount[s]) <=> s \in Registered)
    /\ [][/\ Len(choiceList) <= Len(choiceList')
          /\ \A i \in 1..Len(choiceList) : choiceList'[i] = choiceList[i]
          /\ \A i \in (Len(choiceList) + 1)..Len(choiceList') :
                Decrypt(encryptedChoiceCount'[choiceList'[i]]) = 0
          /\ (last'.op = "submit" /\ last'.choice \in Registered)
                => /\ choiceList' = choiceList
                   /\ encryptedChoiceCount' = encryptedChoiceCount]_vars

\* C12 witness: a vote has just been submitted for a choice string that was
\* registered before and whose count had already grown.
C12_Witness ==
    /\ last.op = "submit"
    /\ voteCount = 2
    /\ Len(choiceList) = 1
    /\ Tally(last.choice) > 0

\* C13: Every failing call is all-or-nothing: whatever the function and the
\* reason, after the failure the vote log and vote count, the choice counts
\* and choiceList, the pending-request table, the handles sent to the oracle,
\* the request counter and the event log are exactly as before the call.
C13_FailureChangesNothing ==
    [][last'.err # Ok => UNCHANGED contractVars]_vars

\* C13 witness: a call has just failed in a state that holds votes, an
\* aggregated count, a pending request and events.
C13_Witness ==
    /\ last.err # Ok
    /\ voteCount > 0
    /\ aggregateCalls > 0
    /\ counterRequest > 0
    /\ Len(events) > 1

\* C14: A callback sent by anyone other than the oracle fails: it emits no
\* VoteCountDecrypted event and fulfils no request.
C14_CallbackOnlyByOracle ==
    [][(last'.op = "callback" /\ sender' # Oracle)
        => /\ last'.err # Ok
           /\ events' = events
           /\ fulfilled' = fulfilled]_vars

\* C15: Double voting is prevented: the ledger never holds two votes with
\* the same voter id.
C15_OneVotePerVoter ==
    \A i, j \in 1..voteCount :
        encryptedVotes[i].voterId = encryptedVotes[j].voterId => i = j

\* C16: A submit never registers an option: it leaves choiceList and the set
\* of choice strings that have an initialized count as they were.
C16_SubmitRegistersNothing ==
    [][last'.op = "submit"
        => /\ choiceList' = choiceList
           /\ \A s \in ChoiceStrings :
                isInitialized(encryptedChoiceCount'[s])
                    = isInitialized(encryptedChoiceCount[s])]_vars

\* C17: Only aggregateVotes changes the tally of a registered option: a
\* submit, a request and a callback, successful or failing, leave the count
\* of every choice that is already registered as it was.
C17_TallyChangedOnlyByAggregate ==
    [][last'.op \in {"submit", "request", "callback"}
        => \A s \in ChoiceStrings :
                isInitialized(encryptedChoiceCount[s])
                    => encryptedChoiceCount'[s] = encryptedChoiceCount[s]]_vars

\* A callback has published the count of a choice whose tally is not zero,
\* after a second vote for that registered choice was submitted.
C17_Witness ==
    /\ last.op = "callback"
    /\ last.err = Ok
    /\ Tally(last.choice) > 0
    /\ VotesFor(last.choice) = MaxVotes

\* The requests that were issued and have had no successful callback.
Pending == IssuedIds \ fulfilled

\* C18: A pending request stays pending until a successful callback for its
\* own request id. Every other step (a submit, an aggregation, another
\* request, a failing callback, a callback for another request id) leaves
\* its stored commitment and the handle sent to the oracle as they were,
\* leaves it pending, and leaves it answerable: nothing retires it.
C18_PendingUntilOwnCallback ==
    [][\A r \in Pending :
        ~(last'.op = "callback" /\ last'.err = Ok /\ last'.requestId = r)
            => /\ decryptionRequests'[r] = decryptionRequests[r]
               /\ requestedHandles'[r] = requestedHandles[r]
               /\ r \in IssuedIds'
               /\ r \notin fulfilled'
               /\ CorrectCallbackPasses(r)']_vars

\* A callback for another request id has succeeded while a request made
\* before it, with votes submitted and aggregated since, is still pending.
C18_Witness ==
    /\ last.op = "callback"
    /\ last.err = Ok
    /\ \E r \in Pending :
            /\ r < last.requestId
            /\ IssuedEntry(r).count < Tally(IssuedEntry(r).choice)

\* C19: Requests may be outstanding together and be answered in any order,
\* with submits and aggregations in between: every successful callback is
\* for a request id that a request created, and the one event it emits
\* names the choice that request was made for, not the choice of any other
\* outstanding request.
C19_CallbackNamesItsOwnChoice ==
    [][(last'.op = "callback" /\ last'.err = Ok)
        => /\ last'.requestId \in IssuedIds
           /\ Len(events') = Len(events) + 1
           /\ events'[Len(events')].name = "VoteCountDecrypted"
           /\ events'[Len(events')].choice = IssuedEntry(last'.requestId).choice
           /\ \A r \in Pending \ {last'.requestId} :
                IssuedEntry(r).choice # IssuedEntry(last'.requestId).choice
                    => events'[Len(events')].choice # IssuedEntry(r).choice]_vars

\* Two requests for different choices were outstanding together and were
\* answered out of order: the callback of the first request has just
\* succeeded, after the callback of the second.
C19_Witness ==
    /\ Len(issued) = 2
    /\ issued[1].choice # issued[2].choice
    /\ last.op = "callback"
    /\ last.err = Ok
    /\ last.requestId = issued[1].requestId
    /\ issued[2].requestId \in fulfilled
    /\ \E i, j \in EventsNamed("VoteCountDecrypted") :
            /\ i < j
            /\ events[i].choice = issued[2].choice
            /\ events[j].choice = issued[1].choice

\* C20: Every VoteCountDecrypted event of the log comes after a
\* DecryptionRequested event of a successful request for the same choice,
\* and the log never holds more VoteCountDecrypted events than
\* DecryptionRequested events.
C20_DecryptedFollowsRequested ==
    /\ \A j \in EventsNamed("VoteCountDecrypted") :
            \E i \in EventsNamed("DecryptionRequested") :
                /\ i < j
                /\ events[i].requestId \in IssuedIds
                /\ IssuedEntry(events[i].requestId).choice = events[j].choice
    /\ Cardinality(EventsNamed("VoteCountDecrypted"))
            <= Cardinality(EventsNamed("DecryptionRequested"))

\* The votes stored after the last aggregateVotes call that are counted
\* under choice string s.
VotesSinceCursorFor(s) ==
    Cardinality({i \in (cursor + 1)..voteCount :
                    choiceStrOf(encryptedVotes[i].encryptedChoice) = s})

\* C21: aggregateVotes processes exactly the votes stored after the previous
\* aggregation: the number it folds is the number of votes submitted since
\* then, the count of each choice grows by the number of those votes that
\* are for it, and afterwards the cursor is the id of the last stored vote.
C21_AggregateFoldsSinceCursor ==
    [][last'.op = "aggregate"
        => /\ last'.folded = voteCount - cursor
           /\ \A s \in ChoiceStrings :
                Decrypt(encryptedChoiceCount'[s])
                    = Decrypt(encryptedChoiceCount[s]) + VotesSinceCursorFor(s)
           /\ cursor' = voteCount']_vars

\* C22: A successful submit appends exactly one event, VoteSubmitted, with
\* the voter id and the timestamp stored in the vote it appended; a
\* successful request appends exactly one event, DecryptionRequested, with
\* the request id it returned; an aggregation emits nothing; and no step
\* removes or rewrites an event that is already in the log.
C22_EventsMatchCalls ==
    [][/\ (last'.op = "submit" /\ last'.err = Ok)
            => events' = Append(events,
                    VoteSubmitted(encryptedVotes'[voteCount'].voterId,
                                  encryptedVotes'[voteCount'].timestamp))
       /\ (last'.op = "request" /\ last'.err = Ok)
            => events' = Append(events, DecryptionRequested(last'.requestId))
       /\ last'.op = "aggregate" => events' = events
       /\ Len(events') >= Len(events)
       /\ SubSeq(events', 1, Len(events)) = events]_vars

\* The second request has just succeeded, after an aggregation and after
\* two votes stored at different timestamps, and the log ends with its event.
C22_Witness ==
    /\ last.op = "request"
    /\ last.err = Ok
    /\ last.requestId > 0
    /\ aggregateCalls > 0
    /\ voteCount = MaxVotes
    /\ encryptedVotes[1].timestamp # encryptedVotes[2].timestamp
    /\ events[Len(events)] = DecryptionRequested(last.requestId)
    /\ Cardinality(EventsNamed("VoteSubmitted")) = voteCount

\* C23: aggregateVotes changes nothing but the counts: the stored votes and
\* their number, the list of choices, the set of choices that have a count,
\* and the table of requested decryptions are as they were before the call.
C23_AggregateFrame ==
    [][last'.op = "aggregate"
        => /\ UNCHANGED <<voteCount, encryptedVotes, choiceList,
                          decryptionRequests, counterRequest, requestedHandles>>
           /\ \A s \in ChoiceStrings :
                isInitialized(encryptedChoiceCount'[s])
                    = isInitialized(encryptedChoiceCount[s])]_vars

\* An aggregation has just folded votes of two different choices while a
\* request was pending.
C23_Witness ==
    /\ last.op = "aggregate"
    /\ last.folded = MaxVotes
    /\ Len(choiceList) = 2
    /\ Pending # {}
    /\ \E s \in Registered : Tally(s) > 0

\* C24: In every reachable state the commitment stored for each pending
\* request is the digest of an entry of choiceList, so no callback for a
\* pending request that carries a valid proof has failed in getChoiceFromHash.
C24_PendingCommitmentResolves ==
    /\ \A r \in Pending :
            \E i \in 1..Len(choiceList) :
                decryptionRequests[r] = choiceDigest(choiceList[i])
    /\ ~(/\ last.op = "callback"
         /\ last.requestId \in Pending
         /\ last.proofOk
         /\ last.err = "Choice not found")

\* A request whose commitment is the digest of the second entry of
\* choiceList is pending while a correctly proved callback for another
\* request has just succeeded.
C24_Witness ==
    /\ Len(choiceList) = 2
    /\ last.op = "callback"
    /\ last.proofOk
    /\ last.err = Ok
    /\ \E r \in Pending : decryptionRequests[r] = choiceDigest(choiceList[2])

\* The record stored under poll_<pollId>, and whether there is one.
PollStored(pollId) == getData(PollKey(pollId)).length > 0
StoredPoll(pollId) == JSON_parse(toUtf8String(getData(PollKey(pollId))))

\* The per-option results of the stored record, decoded as viewResults does.
StoredResults(pollId) == JSON_parse(atob(StoredPoll(pollId).encryptedResults))

\* The ids listed under poll_keys.
StoredKeys ==
    LET keys == ParseKeys(getData(PollKeysKey)) IN {keys[i] : i \in 1..Len(keys)}

\* The successful submitVote calls on a poll, and those for one option.
BallotsFor(pollId) ==
    Cardinality({i \in 1..Len(ballots) : ballots[i].pollId = pollId})
BallotsForOption(pollId, optionIndex) ==
    Cardinality({i \in 1..Len(ballots) :
                    /\ ballots[i].pollId = pollId
                    /\ ballots[i].optionIndex = optionIndex})

\* The sum of the first n entries of a sequence of numbers.
RECURSIVE SumTo(_, _)
SumTo(q, n) == IF n = 0 THEN 0 ELSE SumTo(q, n - 1) + q[n]

\* C25: After n successful submitVote calls on a poll its stored record has
\* totalVotes = n, each option's result is the number of those calls that
\* chose it, and the results sum to totalVotes, whatever the interleaving
\* of the clients' reads and writes.
C25_NoLostVote ==
    \A pollId \in PollIds :
        PollStored(pollId)
            => /\ StoredPoll(pollId).totalVotes = BallotsFor(pollId)
               /\ \A o \in 0..(StoredPoll(pollId).options - 1) :
                    StoredResults(pollId)[o + 1] = BallotsForOption(pollId, o)
               /\ SumTo(StoredResults(pollId), StoredPoll(pollId).options)
                    = StoredPoll(pollId).totalVotes

\* C26: Every id listed under poll_keys has a stored poll_<id> record, and
\* the id of every poll whose createPoll call succeeded is listed under
\* poll_keys, whatever the interleaving of the clients' reads and writes.
C26_PollKeysComplete ==
    /\ \A pollId \in StoredKeys : PollStored(pollId)
    /\ \A pollId \in createdPolls : pollId \in StoredKeys
=============================================================================
